---- MODULE Spec2Model ----
(***************************************************************************)
(* sbf::BloomFilter<std::string> (bloom_filter.h) and sbf::hash::Djb2      *)
(* (util.cc) as a state machine.  The variables are the fields of one      *)
(* filter object; every public method is an operator on the object's       *)
(* record and an action that applies it.                                   *)
(*                                                                         *)
(* std::size_t is 64 bits wide.  TLC's integers are 32 bits wide, so a     *)
(* size_t value is a tuple of four 16-bit limbs, least significant first,  *)
(* and the arithmetic below is modulo 2^64.                                *)
(***************************************************************************)
EXTENDS Integers, Sequences, FiniteSets, TLC

VARIABLES
  filter_,                \* std::vector<bool>: [size, ones], ones = the indices holding true
  num_hashes_,            \* std::size_t
  size_,                  \* std::size_t
  parameter_error_flags_, \* int
  std_hash,               \* std::hash<std::string> of the build: entry -> size_t
  char_signed,            \* whether plain char is signed in the build
  last,                   \* the call that produced this state: op, its argument, what it returned
  inserted,               \* history: the entries Insert was called with
  insert_calls,           \* history: the number of Insert calls
  resized,                \* history: SetLog2NumBits was called after construction
  reconfigured            \* history: a setter was called after construction

vars == <<filter_, num_hashes_, size_, parameter_error_flags_, std_hash,
          char_signed, last, inserted, insert_calls, resized, reconfigured>>

----------------------------------------------------------------------------
(* std::size_t arithmetic *)

Limb == 2^16

\* a size_t from a natural below 2^31
SizeT(n) == <<n % Limb, n \div Limb, 0, 0>>

Zero == SizeT(0)

One == SizeT(1)

\* the natural a size_t below 2^31 stands for
ToNat(x) == x[1] + x[2] * Limb

\* a + b modulo 2^64
Add(a, b) ==
  LET s1 == a[1] + b[1]
      s2 == a[2] + b[2] + (s1 \div Limb)
      s3 == a[3] + b[3] + (s2 \div Limb)
      s4 == a[4] + b[4] + (s3 \div Limb)
  IN  <<s1 % Limb, s2 % Limb, s3 % Limb, s4 % Limb>>

\* ~x
Compl(x) == <<Limb - 1 - x[1], Limb - 1 - x[2], Limb - 1 - x[3], Limb - 1 - x[4]>>

\* a - b modulo 2^64
Sub(a, b) == Add(Add(a, Compl(b)), One)

\* a < b
Less(a, b) ==
  \/ a[4] < b[4]
  \/ a[4] = b[4] /\ a[3] < b[3]
  \/ a[4] = b[4] /\ a[3] = b[3] /\ a[2] < b[2]
  \/ a[4] = b[4] /\ a[3] = b[3] /\ a[2] = b[2] /\ a[1] < b[1]

RECURSIVE AndNat(_, _)
\* a & b on naturals
AndNat(a, b) ==
  IF a = 0 \/ b = 0 THEN 0
  ELSE (a % 2) * (b % 2) + 2 * AndNat(a \div 2, b \div 2)

\* a & b
BitAnd(a, b) ==
  <<AndNat(a[1], b[1]), AndNat(a[2], b[2]), AndNat(a[3], b[3]), AndNat(a[4], b[4])>>

\* x << 1
Shl1(x) == Add(x, x)

RECURSIVE Shl(_, _)
\* x << n
Shl(x, n) == IF n = 0 THEN x ELSE Shl(Shl1(x), n - 1)

\* x | 1
Or1(x) == <<x[1] + (1 - (x[1] % 2)), x[2], x[3], x[4]>>

\* x >> 1
Shr1(x) ==
  <<(x[1] \div 2) + (x[2] % 2) * 2^15,
    (x[2] \div 2) + (x[3] % 2) * 2^15,
    (x[3] \div 2) + (x[4] % 2) * 2^15,
    x[4] \div 2>>

RECURSIVE Shr(_, _)
\* x >> n
Shr(x, n) ==
  IF n = 0 THEN x
  ELSE IF n >= 16 THEN Shr(<<x[2], x[3], x[4], 0>>, n - 16)
  ELSE Shr(Shr1(x), n - 1)

\* 1ull << e, e < 64
Pow2(e) ==
  <<IF e < 16 THEN 2^e ELSE 0,
    IF 16 <= e /\ e < 32 THEN 2^(e - 16) ELSE 0,
    IF 32 <= e /\ e < 48 THEN 2^(e - 32) ELSE 0,
    IF 48 <= e /\ e < 64 THEN 2^(e - 48) ELSE 0>>

\* bit i of x
Bit(x, i) == (x[(i \div 16) + 1] \div 2^(i % 16)) % 2

RECURSIVE DivBits(_, _, _, _, _, _)
\* binary long division over bits i..lo of a: [q, r] from the quotient q and
\* the remainder r < d < 2^63 of the bits above i
DivBits(a, d, i, lo, q, r) ==
  IF i < lo THEN [q |-> q, r |-> r]
  ELSE LET r1 == IF Bit(a, i) = 1 THEN Or1(Shl1(r)) ELSE Shl1(r)
       IN  IF Less(r1, d)
           THEN DivBits(a, d, i - 1, lo, q, r1)
           ELSE DivBits(a, d, i - 1, lo, Add(q, Pow2(i)), Sub(r1, d))

\* floor(a / d), d > 0; the long division runs limb by limb
Div(a, d) ==
  IF Less(a, d) THEN Zero
  ELSE IF d[4] >= 2^15 THEN One
  ELSE LET s4 == DivBits(a, d, 63, 48, Zero, Zero)
           s3 == DivBits(a, d, 47, 32, s4.q, s4.r)
           s2 == DivBits(a, d, 31, 16, s3.q, s3.r)
           s1 == DivBits(a, d, 15, 0, s2.q, s2.r)
       IN  s1.q

\* the e with x = 2^e
Log2(x) == CHOOSE e \in 0..63 : Pow2(e) = x

----------------------------------------------------------------------------
(* util.cc *)

kHashDjb2 == SizeT(5381)

\* static_cast<std::size_t>(c) of a char holding the byte c: a signed char
\* holding a byte >= 128 is negative and converts modulo 2^64
CharToSizeT(c, is_signed) ==
  IF is_signed /\ c >= 128
  THEN <<Limb - (256 - c), Limb - 1, Limb - 1, Limb - 1>>
  ELSE SizeT(c)

RECURSIVE Djb2Loop(_, _, _, _)
Djb2Loop(str, i, hash, is_signed) ==
  IF i > Len(str) THEN hash
  ELSE Djb2Loop(str, i + 1,
                Add(Add(Shl(hash, 5), hash), CharToSizeT(str[i], is_signed)),
                is_signed)

Djb2(str) == Djb2Loop(str, 1, kHashDjb2, char_signed)

----------------------------------------------------------------------------
(* bloom_filter.h: the members of BloomFilter<std::string>, as operators on *)
(* the object self = [filter_, num_hashes_, size_, parameter_error_flags_]  *)

kHasLog2NumBitsError == 1

kHasNumHashesError == 2

kDefaultLog2NumBits == 8

kNumDefaultNumHashes == 5

\* the largest exponent SetLog2NumBits accepts
kMaxLog2NumBits == 33

RECURSIVE AndNotInt(_, _)
\* x & ~f for an int x >= 0 and any int f (two's complement: -1 is all ones)
AndNotInt(x, f) ==
  IF x = 0 THEN 0
  ELSE (x % 2) * (1 - (f % 2)) + 2 * AndNotInt(x \div 2, f \div 2)

RECURSIVE OrNat(_, _)
\* x | f for ints x, f >= 0
OrNat(x, f) ==
  IF x = 0 THEN f
  ELSE IF f = 0 THEN x
  ELSE (IF x % 2 = 1 \/ f % 2 = 1 THEN 1 ELSE 0) + 2 * OrNat(x \div 2, f \div 2)

\* std::vector<bool>::resize(n): the first min(size, n) elements keep their
\* values, the elements added are false
Resize(f, n) == [size |-> n, ones |-> {i \in f.ones : Less(i, n)}]

NumBits(self) == self.filter_.size

NumHashes(self) == self.num_hashes_

Size(self) == self.size_

ParameterErrorFlags(self) == self.parameter_error_flags_

HasParameterError(self) == self.parameter_error_flags_ # 0

\* ClearParameterError that clears every flag whatever the mask
ClearParameterError_All(self, flag) == [self EXCEPT !.parameter_error_flags_ = 0]

ClearParameterError(self, flag) ==
  [self EXCEPT !.parameter_error_flags_ = AndNotInt(@, flag)]

\* SetLog2NumBits without the clamp to 33
SetLog2NumBits_NoClamp(self, log2_num_bits) ==
  IF log2_num_bits > kMaxLog2NumBits
  THEN [self |-> [self EXCEPT
                    !.filter_ = Resize(@, Pow2(log2_num_bits)),
                    !.parameter_error_flags_ = OrNat(@, kHasLog2NumBitsError)],
        ret |-> FALSE]
  ELSE [self |-> ClearParameterError(
                   [self EXCEPT !.filter_ = Resize(@, Pow2(log2_num_bits))],
                   kHasLog2NumBitsError),
        ret |-> TRUE]

\* SetLog2NumBits without the ClearParameterError call
SetLog2NumBits_NoClear(self, log2_num_bits) ==
  IF log2_num_bits > kMaxLog2NumBits
  THEN [self |-> [self EXCEPT
                    !.filter_ = Resize(@, Pow2(kMaxLog2NumBits)),
                    !.parameter_error_flags_ = OrNat(@, kHasLog2NumBitsError)],
        ret |-> FALSE]
  ELSE [self |-> [self EXCEPT !.filter_ = Resize(@, Pow2(log2_num_bits))],
        ret |-> TRUE]

\* returns [self, ret]
SetLog2NumBits(self, log2_num_bits) ==
  IF log2_num_bits > kMaxLog2NumBits
  THEN [self |-> [self EXCEPT
                    !.filter_ = Resize(@, Pow2(kMaxLog2NumBits)),
                    !.parameter_error_flags_ = OrNat(@, kHasLog2NumBitsError)],
        ret |-> FALSE]
  ELSE [self |-> ClearParameterError(
                   [self EXCEPT !.filter_ = Resize(@, Pow2(log2_num_bits))],
                   kHasLog2NumBitsError),
        ret |-> TRUE]

\* SetNumHashes without the clamp to 1
SetNumHashes_NoClamp(self, num_hashes) ==
  IF Less(num_hashes, One)
  THEN [self |-> [self EXCEPT
                    !.num_hashes_ = num_hashes,
                    !.parameter_error_flags_ = OrNat(@, kHasNumHashesError)],
        ret |-> FALSE]
  ELSE [self |-> ClearParameterError([self EXCEPT !.num_hashes_ = num_hashes],
                                     kHasNumHashesError),
        ret |-> TRUE]

\* SetNumHashes without the ClearParameterError call
SetNumHashes_NoClear(self, num_hashes) ==
  IF Less(num_hashes, One)
  THEN [self |-> [self EXCEPT
                    !.num_hashes_ = One,
                    !.parameter_error_flags_ = OrNat(@, kHasNumHashesError)],
        ret |-> FALSE]
  ELSE [self |-> [self EXCEPT !.num_hashes_ = num_hashes], ret |-> TRUE]

\* returns [self, ret]
SetNumHashes(self, num_hashes) ==
  IF Less(num_hashes, One)
  THEN [self |-> [self EXCEPT
                    !.num_hashes_ = One,
                    !.parameter_error_flags_ = OrNat(@, kHasNumHashesError)],
        ret |-> FALSE]
  ELSE [self |-> ClearParameterError([self EXCEPT !.num_hashes_ = num_hashes],
                                     kHasNumHashesError),
        ret |-> TRUE]

ModNumBits(self, x) == BitAnd(x, Sub(NumBits(self), One))

FirstHash(self, entry) == ModNumBits(self, std_hash[entry])

\* the specialization for std::string: Djb2 of the entry itself
SecondHash(self, entry) == ModNumBits(self, Or1(Shl1(Djb2(entry))))

RECURSIVE HashLoop_Plain(_, _, _, _, _, _)
\* the loop of Hash without b = (b + i) & mask: plain double hashing
HashLoop_Plain(a, b, i, num_hashes, mask, hashes) ==
  IF i < num_hashes
  THEN LET a1 == BitAnd(Add(a, b), mask)
       IN  HashLoop_Plain(a1, b, i + 1, num_hashes, mask, Append(hashes, a1))
  ELSE hashes

RECURSIVE HashLoop(_, _, _, _, _, _)
\* the for loop of Hash, from i on
HashLoop(a, b, i, num_hashes, mask, hashes) ==
  IF i < num_hashes
  THEN LET a1 == BitAnd(Add(a, b), mask)
           b1 == BitAnd(Add(b, SizeT(i)), mask)
       IN  HashLoop(a1, b1, i + 1, num_hashes, mask, Append(hashes, a1))
  ELSE hashes

\* Hash whose second hash is offset by the hash count
Hash_FromCount(self, entry) ==
  LET a == FirstHash(self, entry)
      mask == Sub(NumBits(self), One)
      b == BitAnd(Add(SecondHash(self, entry), NumHashes(self)), mask)
  IN  HashLoop(a, b, 1, ToNat(NumHashes(self)), mask, <<a>>)

\* the sequence of NumHashes() positions (NumHashes() below 2^31)
Hash(self, entry) ==
  LET a == FirstHash(self, entry)
      b == SecondHash(self, entry)
      mask == Sub(NumBits(self), One)
  IN  HashLoop(a, b, 1, ToNat(NumHashes(self)), mask, <<a>>)

\* filter_[hash] of an index inside the vector
InRange(self, hash) == Less(hash, NumBits(self))

\* Insert that stores the probe positions in place of the set bits
Insert_Overwrites(self, entry) ==
  LET hashes == Hash(self, entry)
  IN  [self EXCEPT
         !.filter_.ones = {hashes[i] : i \in 1..Len(hashes)},
         !.size_ = Add(@, One)]

\* Insert without size_++
Insert_NoCount(self, entry) ==
  LET hashes == Hash(self, entry)
  IN  [self EXCEPT !.filter_.ones = @ \cup {hashes[i] : i \in 1..Len(hashes)}]

Insert(self, entry) ==
  LET hashes == Hash(self, entry)
  IN  [self EXCEPT
         !.filter_.ones = @ \cup {hashes[i] : i \in 1..Len(hashes)},
         !.size_ = Add(@, One)]

RECURSIVE ContainsLoop(_, _, _)
\* the for loop of Contains, from the i-th hash on
ContainsLoop(self, hashes, i) ==
  IF i > Len(hashes) THEN TRUE
  ELSE IF hashes[i] \notin self.filter_.ones THEN FALSE
  ELSE ContainsLoop(self, hashes, i + 1)

\* Contains with its loop starting at the second hash
Contains_SkipsFirst(self, entry) == ContainsLoop(self, Hash(self, entry), 2)

Contains(self, entry) == ContainsLoop(self, Hash(self, entry), 1)

\* std::log(2), the double 0x3FE62E42FEFA39EF, is Ln2Mantissa * 2^-53
Ln2Mantissa == <<14831, 65274, 11842, 22>>

Ln2Exponent == 53

\* INT_MAX
IntMax == <<Limb - 1, 2^15 - 1, 0, 0>>

\* INT_MIN converted to std::size_t: 2^64 - 2^31
IntMinAsSizeT == <<0, 2^15, Limb - 1, Limb - 1>>

\* 10^10
TenBillion == <<58368, 21515, 2, 0>>

\* the max_num_entries a client passes: 0, 1 and 10^10
MaxEntriesInputs == {Zero, One, TenBillion}

\* The double std::log(2) * numBits / max_num_entries truncated toward zero,
\* for numBits = 2^e and max_num_entries > 0.  The product is exact; the
\* quotient is rounded to 53 bits, which never reaches the next integer (the
\* quotient q lies at least q / Ln2Mantissa below it, more than half an ulp),
\* so its truncation is
\* floor(Ln2Mantissa * 2^e / (2^53 * max_num_entries))
\*   = floor(floor(Ln2Mantissa / 2^(53 - e)) / max_num_entries).
TruncQuotient(numBits, max_num_entries) ==
  Div(Shr(Ln2Mantissa, Ln2Exponent - Log2(numBits)), max_num_entries)

\* TruncQuotient(2^e, n), computed once for the sizes and the inputs of the model
TruncQuotients ==
  [e \in 0..kMaxLog2NumBits, n \in MaxEntriesInputs \ {Zero} |->
     TruncQuotient(Pow2(e), n)]

\* The double std::log(2) * NumBits() / max_num_entries: [finite, trunc].
\* Division by zero gives +infinity.
OptimalQuotient(self, max_num_entries) ==
  IF max_num_entries = Zero
  THEN [finite |-> FALSE, trunc |-> Zero]
  ELSE [finite |-> TRUE,
        trunc |-> TruncQuotients[Log2(NumBits(self)), max_num_entries]]

\* What an out-of-range double converted to int may give (undefined
\* behaviour): INT_MIN (x86 cvttsd2si), INT_MAX (a saturating conversion) or
\* 0, each then converted to std::size_t.
UndefinedIntAsSizeT == {IntMinAsSizeT, IntMax, Zero}

\* the values std::size_t num_hashes = static_cast<int>(q) may hold
StaticCastInt(q) ==
  IF ~q.finite \/ Less(IntMax, q.trunc) THEN UndefinedIntAsSizeT ELSE {q.trunc}

\* SetOptimalNumHashes without the ClearParameterError call
SetOptimalNumHashes_NoClear(self, num_hashes) == SetNumHashes(self, num_hashes)

\* returns [self, ret]; num_hashes \in StaticCastInt(OptimalQuotient(self, max_num_entries))
SetOptimalNumHashes(self, num_hashes) ==
  LET r == SetNumHashes(self, num_hashes)
  IN  [self |-> ClearParameterError(r.self, kHasNumHashesError), ret |-> r.ret]

\* the object before the constructor's body runs (num_hashes_ is not yet
\* initialized there and is written before it is read)
Allocated ==
  [filter_ |-> [size |-> Zero, ones |-> {}],
   num_hashes_ |-> Zero,
   size_ |-> Zero,
   parameter_error_flags_ |-> 0]

\* BloomFilter(num_bits, num_hashes)
BloomFilter2(num_bits, num_hashes) ==
  SetNumHashes(SetLog2NumBits(Allocated, num_bits).self, num_hashes).self

\* BloomFilter(num_bits)
BloomFilter1(num_bits) == BloomFilter2(num_bits, SizeT(kNumDefaultNumHashes))

\* BloomFilter()
BloomFilter0 == BloomFilter1(kDefaultLog2NumBits)

----------------------------------------------------------------------------
(* The calls a client makes *)

\* the strings "a", "b", "c"
Entries == {<<97>>, <<98>>, <<99>>}

\* hash tables std::hash<std::string> may be
StdHashes ==
  {[e \in Entries |-> SizeT(e[1])],
   [e \in Entries |-> Add(Pow2(40), SizeT((e[1] % 2) * 7))]}

Log2Inputs == {0, 2, 33, 34}

NumHashesInputs == {Zero, One, SizeT(2)}

\* ClearParameterError(): the default argument is -1
FlagInputs == {-1, kHasLog2NumBitsError, kHasNumHashesError}

\* Insert is called at most MaxInserts times
MaxInserts == 2

\* Insert and Contains are called with at most MaxProbes hash functions
MaxProbes == 5

Self ==
  [filter_ |-> filter_, num_hashes_ |-> num_hashes_, size_ |-> size_,
   parameter_error_flags_ |-> parameter_error_flags_]

\* the object becomes next
Becomes(next) ==
  /\ filter_' = next.filter_
  /\ num_hashes_' = next.num_hashes_
  /\ size_' = next.size_
  /\ parameter_error_flags_' = next.parameter_error_flags_

Constructed(self, arg) ==
  /\ filter_ = self.filter_
  /\ num_hashes_ = self.num_hashes_
  /\ size_ = self.size_
  /\ parameter_error_flags_ = self.parameter_error_flags_
  /\ last = [op |-> "BloomFilter", args |-> arg]
  /\ inserted = {}
  /\ insert_calls = 0
  /\ resized = FALSE
  /\ reconfigured = FALSE

Init ==
  /\ std_hash \in StdHashes
  /\ char_signed = TRUE   \* the entries are ASCII: both conversions agree on them
  /\ \/ Constructed(BloomFilter0, <<>>)
     \/ \E e \in Log2Inputs : Constructed(BloomFilter1(e), <<e>>)
     \/ \E e \in Log2Inputs, k \in NumHashesInputs :
          Constructed(BloomFilter2(e, k), <<e, k>>)

CanHash == Less(num_hashes_, SizeT(MaxProbes + 1))

DoInsert ==
  /\ CanHash
  /\ insert_calls < MaxInserts
  /\ \E entry \in Entries :
       /\ Becomes(Insert(Self, entry))
       /\ last' = [op |-> "Insert", entry |-> entry]
       /\ inserted' = inserted \cup {entry}
  /\ insert_calls' = insert_calls + 1
  /\ UNCHANGED <<std_hash, char_signed, resized, reconfigured>>

\* Contains that writes the bits it probes, as Insert does
DoContains_Writes ==
  /\ CanHash
  /\ \E entry \in Entries :
       /\ last' = [op |-> "Contains", entry |-> entry, ret |-> Contains(Self, entry)]
       /\ filter_' = Insert(Self, entry).filter_
  /\ UNCHANGED <<num_hashes_, size_, parameter_error_flags_, std_hash,
                 char_signed, inserted, insert_calls, resized, reconfigured>>

DoContains ==
  /\ CanHash
  /\ \E entry \in Entries :
       last' = [op |-> "Contains", entry |-> entry, ret |-> Contains(Self, entry)]
  /\ UNCHANGED <<filter_, num_hashes_, size_, parameter_error_flags_, std_hash,
                 char_signed, inserted, insert_calls, resized, reconfigured>>

DoSetLog2NumBits ==
  /\ \E e \in Log2Inputs :
       LET r == SetLog2NumBits(Self, e)
       IN  /\ Becomes(r.self)
           /\ last' = [op |-> "SetLog2NumBits", log2_num_bits |-> e, ret |-> r.ret]
  /\ resized' = TRUE
  /\ reconfigured' = TRUE
  /\ UNCHANGED <<std_hash, char_signed, inserted, insert_calls>>

DoSetNumHashes ==
  /\ \E k \in NumHashesInputs :
       LET r == SetNumHashes(Self, k)
       IN  /\ Becomes(r.self)
           /\ last' = [op |-> "SetNumHashes", num_hashes |-> k, ret |-> r.ret]
  /\ reconfigured' = TRUE
  /\ UNCHANGED <<std_hash, char_signed, inserted, insert_calls, resized>>

DoSetOptimalNumHashes ==
  /\ \E n \in MaxEntriesInputs :
       LET q == OptimalQuotient(Self, n)
       IN  \E num_hashes \in StaticCastInt(q) :
             LET r == SetOptimalNumHashes(Self, num_hashes)
             IN  /\ Becomes(r.self)
                 /\ last' = [op |-> "SetOptimalNumHashes", max_num_entries |-> n,
                              quotient |-> q, ret |-> r.ret]
  /\ reconfigured' = TRUE
  /\ UNCHANGED <<std_hash, char_signed, inserted, insert_calls, resized>>

DoClearParameterError ==
  /\ \E flag \in FlagInputs :
       /\ Becomes(ClearParameterError(Self, flag))
       /\ last' = [op |-> "ClearParameterError", flag |-> flag]
  /\ UNCHANGED <<std_hash, char_signed, inserted, insert_calls, resized, reconfigured>>

Next ==
  \/ DoInsert
  \/ DoContains
  \/ DoSetLog2NumBits
  \/ DoSetNumHashes
  \/ DoSetOptimalNumHashes
  \/ DoClearParameterError

Spec == Init /\ [][Next]_vars

----------------------------------------------------------------------------
(* The hash functions on their own: a filter of every valid size, and calls *)
(* of Djb2, SecondHash and Hash with byte strings                           *)

\* the byte values the strings are made of: NUL, 'a', and two bytes >= 128
Bytes == {0, 97, 128, 255}

\* the strings have at most MaxLen bytes
MaxLen == 2

\* the filters have at most MaxHashCount hash functions
MaxHashCount == 5

RECURSIVE Strings(_)
\* the byte strings of at most n bytes
Strings(n) ==
  IF n = 0 THEN {<<>>}
  ELSE LET shorter == Strings(n - 1)
       IN  shorter \cup {Append(t, c) : t \in {x \in shorter : Len(x) = n - 1}, c \in Bytes}

HashStrings == Strings(MaxLen)

\* hash tables std::hash<std::string> may be: small values, and values near 2^64
HashStdHashes ==
  {[str \in HashStrings |-> SizeT(IF str = <<>> THEN 0 ELSE str[1] + 256 * Len(str))],
   [str \in HashStrings |-> Sub(Zero, SizeT(1 + 3 * Len(str)))]}

\* the object is self
ObjectIs(self) ==
  /\ filter_ = self.filter_
  /\ num_hashes_ = self.num_hashes_
  /\ size_ = self.size_
  /\ parameter_error_flags_ = self.parameter_error_flags_

\* a filter BloomFilter(e, k) of every valid size, and the string to hash
HashInit ==
  /\ std_hash \in HashStdHashes
  /\ char_signed \in BOOLEAN
  /\ \E e \in 0..kMaxLog2NumBits, k \in 1..MaxHashCount, str \in HashStrings :
       /\ ObjectIs(BloomFilter2(e, SizeT(k)))
       /\ last = [op |-> "BloomFilter", args |-> <<e, SizeT(k)>>, input |-> str]
  /\ inserted = {}
  /\ insert_calls = 0
  /\ resized = FALSE
  /\ reconfigured = FALSE

\* Djb2(input)
DoDjb2 ==
  /\ last.op = "BloomFilter"
  /\ last' = [op |-> "Djb2", str |-> last.input, ret |-> Djb2(last.input)]
  /\ UNCHANGED <<filter_, num_hashes_, size_, parameter_error_flags_, std_hash,
                 char_signed, inserted, insert_calls, resized, reconfigured>>

\* SecondHash(input); raw is the value before ModNumBits
DoSecondHash ==
  /\ last.op = "BloomFilter"
  /\ last' = [op |-> "SecondHash", entry |-> last.input,
              raw |-> Or1(Shl1(Djb2(last.input))),
              ret |-> SecondHash(Self, last.input)]
  /\ UNCHANGED <<filter_, num_hashes_, size_, parameter_error_flags_, std_hash,
                 char_signed, inserted, insert_calls, resized, reconfigured>>

\* Hash(input)
DoHash ==
  /\ last.op = "BloomFilter"
  /\ last' = [op |-> "Hash", entry |-> last.input, hashes |-> Hash(Self, last.input)]
  /\ UNCHANGED <<filter_, num_hashes_, size_, parameter_error_flags_, std_hash,
                 char_signed, inserted, insert_calls, resized, reconfigured>>

HashNext ==
  \/ DoDjb2
  \/ DoSecondHash
  \/ DoHash

HashSpec == HashInit /\ [][HashNext]_vars

----------------------------------------------------------------------------
(* Properties *)

HasFlag(flags, flag) == AndNat(flags, flag) # 0

\* the positions Hash gives entry in the current state
Probes(entry) == LET hashes == Hash(Self, entry) IN {hashes[i] : i \in 1..Len(hashes)}

\* C1: no false negatives.  While SetLog2NumBits has not been called after
\* construction, a Contains call for an entry Insert was called with returns
\* true, whatever Insert, Contains, SetNumHashes, SetOptimalNumHashes and
\* ClearParameterError calls came before.
C1_NoFalseNegatives ==
  (~resized /\ last.op = "Contains" /\ last.entry \in inserted) => last.ret = TRUE

\* C2: SetLog2NumBits(e) with e <= 33 is a reset.  After the call the bit
\* array has exactly 2^e bits and every one of them is false.
C2_SetLog2NumBitsResets ==
  (last.op = "SetLog2NumBits" /\ last.log2_num_bits <= kMaxLog2NumBits)
    => (filter_.size = Pow2(last.log2_num_bits) /\ filter_.ones = {})

\* C3: construction clamps and flags.  Right after BloomFilter(), BloomFilter(e)
\* or BloomFilter(e, k) (e defaults to 8, k to 5) NumBits() = 2^min(e, 33),
\* NumHashes() = max(k, 1), Size() = 0, the size-error flag is set exactly when
\* e > 33 and the hash-count-error flag exactly when k < 1; and while the
\* configuration is the constructed one, every probe position lies inside the
\* array and Contains returns true for every inserted entry.
C3_Construction ==
  /\ last.op = "BloomFilter" =>
       LET e == IF Len(last.args) >= 1 THEN last.args[1] ELSE 8
           k == IF Len(last.args) = 2 THEN last.args[2] ELSE SizeT(5)
       IN  /\ filter_.size = Pow2(IF e > 33 THEN 33 ELSE e)
           /\ num_hashes_ = (IF Less(k, One) THEN One ELSE k)
           /\ size_ = Zero
           /\ HasFlag(parameter_error_flags_, 1) <=> (e > 33)
           /\ HasFlag(parameter_error_flags_, 2) <=> Less(k, One)
           /\ parameter_error_flags_ \in 0..3
  /\ ~reconfigured =>
       /\ \A v \in Entries :
            /\ \A h \in Probes(v) : InRange(Self, h)
            /\ v \in inserted => Contains(Self, v)
       /\ (last.op = "Contains" /\ last.entry \in inserted) => last.ret = TRUE

\* C3 witness: a filter constructed with e > 33 and k < 1 has answered true
\* for an inserted entry against the clamped array
C3_Witness ==
  /\ ~reconfigured
  /\ parameter_error_flags_ = 3
  /\ filter_.size = Pow2(33)
  /\ last.op = "Contains"
  /\ last.ret = TRUE

\* C4: a SetLog2NumBits(e) call with e > 33 leaves 2^33 bits, sets the
\* size-error flag and returns false; with e <= 33 it leaves 2^e bits, clears
\* the size-error flag and returns true.  Either way the hash-count-error
\* flag, the hash count and the inserted count are as before the call.
C4_SetLog2NumBits ==
  [][last'.op = "SetLog2NumBits" =>
       /\ IF last'.log2_num_bits > 33
          THEN /\ filter_'.size = Pow2(33)
               /\ HasFlag(parameter_error_flags_', 1)
               /\ last'.ret = FALSE
          ELSE /\ filter_'.size = Pow2(last'.log2_num_bits)
               /\ ~HasFlag(parameter_error_flags_', 1)
               /\ last'.ret = TRUE
       /\ HasFlag(parameter_error_flags_', 2) <=> HasFlag(parameter_error_flags_, 2)
       /\ num_hashes_' = num_hashes_
       /\ size_' = size_]_vars

\* C4 witness: SetLog2NumBits(e > 33) on a filter holding inserts and the
\* hash-count-error flag
C4_Witness ==
  /\ last.op = "SetLog2NumBits"
  /\ last.log2_num_bits > 33
  /\ last.ret = FALSE
  /\ parameter_error_flags_ = 3
  /\ size_ = SizeT(2)

\* C5: a SetNumHashes(k) call with k < 1 leaves the hash count 1, sets the
\* hash-count-error flag and returns false; with k >= 1 it leaves the hash
\* count k, clears the flag and returns true.  The size-error flag is as
\* before the call.
C5_SetNumHashes ==
  [][last'.op = "SetNumHashes" =>
       /\ IF Less(last'.num_hashes, One)
          THEN /\ num_hashes_' = One
               /\ HasFlag(parameter_error_flags_', 2)
               /\ last'.ret = FALSE
          ELSE /\ num_hashes_' = last'.num_hashes
               /\ ~HasFlag(parameter_error_flags_', 2)
               /\ last'.ret = TRUE
       /\ HasFlag(parameter_error_flags_', 1) <=> HasFlag(parameter_error_flags_, 1)]_vars

\* C5 witness: a valid SetNumHashes call on a filter whose size-error flag is set
C5_Witness ==
  /\ last.op = "SetNumHashes"
  /\ last.ret = TRUE
  /\ num_hashes_ = SizeT(2)
  /\ parameter_error_flags_ = 1

\* the last call was SetOptimalNumHashes and the quotient it computed is below 1
OptimumBelowOne ==
  /\ last.op = "SetOptimalNumHashes"
  /\ last.quotient.finite
  /\ Less(last.quotient.trunc, One)

\* C6, as stated: after a SetOptimalNumHashes call whose computed optimum is
\* below 1, NumHashes() = 1, the call returned false and HasParameterError()
\* is false.
C6_Original ==
  OptimumBelowOne =>
    /\ num_hashes_ = One
    /\ last.ret = FALSE
    /\ ~HasParameterError(Self)

\* C6, amended: such a call leaves NumHashes() = 1, returns false and leaves
\* the hash-count-error flag clear and the size-error flag as it was, so
\* HasParameterError() is false after it exactly when the size-error flag was
\* not set before it.
C6_Amended ==
  [][(/\ last'.op = "SetOptimalNumHashes"
      /\ last'.quotient.finite
      /\ Less(last'.quotient.trunc, One))
     => /\ num_hashes_' = One
        /\ last'.ret = FALSE
        /\ ~HasFlag(parameter_error_flags_', 2)
        /\ HasFlag(parameter_error_flags_', 1) <=> HasFlag(parameter_error_flags_, 1)
        /\ (parameter_error_flags_' # 0) <=> HasFlag(parameter_error_flags_, 1)]_vars

\* C6 witness: the optimum was below 1 and the size-error flag stays set
C6_Witness ==
  /\ OptimumBelowOne
  /\ num_hashes_ = One
  /\ parameter_error_flags_ = 1

\* C7: after SetOptimalNumHashes(n) with n >= 1, NumHashes() is
\* max(1, floor(ln(2) * NumBits() / n)) and the call returned true exactly when
\* that floor is at least 1.
C7_OptimalNumHashes ==
  (last.op = "SetOptimalNumHashes" /\ last.max_num_entries # Zero) =>
    LET t == TruncQuotient(filter_.size, last.max_num_entries)
    IN  /\ num_hashes_ = (IF Less(t, One) THEN One ELSE t)
        /\ last.ret = ~Less(t, One)

\* C8: NumHashes() >= 1 and NumBits() = 2^e with 0 <= e <= 33 in every state
C8_Configuration ==
  /\ ~Less(num_hashes_, One)
  /\ \E e \in 0..33 : filter_.size = Pow2(e)

\* C8 witness: the hash count after the conversion of an out-of-range quotient
C8_Witness ==
  /\ last.op = "SetOptimalNumHashes"
  /\ last.max_num_entries = Zero
  /\ num_hashes_ = IntMinAsSizeT
  /\ parameter_error_flags_ = 1

\* C9: a Contains(v) call returns true exactly when every probe position of v
\* is set.  While the configuration is the constructed one, Contains(v) is
\* false for every v with a probe position that is no probe position of an
\* inserted entry.
C9_Contains ==
  /\ CanHash =>
       \A v \in Entries : Contains(Self, v) <=> (Probes(v) \subseteq filter_.ones)
  /\ last.op = "Contains" => (last.ret <=> (Probes(last.entry) \subseteq filter_.ones))
  /\ ~reconfigured =>
       \A v \in Entries :
         (Probes(v) \ UNION {Probes(w) : w \in inserted} # {}) => ~Contains(Self, v)

\* C9 witness: Contains returned false on a filter that holds inserts and was
\* never reconfigured
C9_Witness ==
  /\ last.op = "Contains"
  /\ last.ret = FALSE
  /\ insert_calls = 2
  /\ ~reconfigured

\* C10: Size() is the number of Insert calls; an Insert call raises it by
\* exactly 1 and no other call changes it.
C10_Size ==
  /\ [](size_ = SizeT(insert_calls))
  /\ [][IF last'.op = "Insert" THEN size_' = Add(size_, One) ELSE size_' = size_]_vars

\* C10 witness: the same entry inserted twice
C10_Witness ==
  /\ insert_calls = 2
  /\ Cardinality(inserted) = 1
  /\ size_ = SizeT(2)
  /\ resized

\* the object in the next state
SelfNext ==
  [filter_ |-> filter_', num_hashes_ |-> num_hashes_', size_ |-> size_',
   parameter_error_flags_ |-> parameter_error_flags_']

\* C11: the bit array changes only by Insert setting bits.  In a step that is
\* no SetLog2NumBits call the array keeps its size and every set bit stays
\* set; a step that is no Insert call leaves the array as it was; an
\* Insert(v) call changes only bits at v's probe positions, and changes
\* nothing when they are all set already (as when v was inserted before
\* under the same configuration).
C11_BitsOnlySet ==
  [][last'.op # "SetLog2NumBits" =>
       /\ filter_'.size = filter_.size
       /\ filter_.ones \subseteq filter_'.ones
       /\ last'.op # "Insert" => filter_' = filter_
       /\ last'.op = "Insert" =>
            /\ (filter_'.ones \ filter_.ones) \subseteq Probes(last'.entry)
            /\ Probes(last'.entry) \subseteq filter_.ones => filter_' = filter_
            /\ (~reconfigured /\ last'.entry \in inserted) => filter_' = filter_]_vars

\* C11 witness: an entry inserted a second time under the constructed
\* configuration, beside another entry's bits
C11_Witness ==
  /\ last.op = "Insert"
  /\ ~reconfigured
  /\ insert_calls = 2
  /\ Cardinality(inserted) = 1
  /\ filter_.ones = Probes(last.entry)
  /\ Cardinality(filter_.ones) >= 2

\* C12: Contains is side-effect free.  A Contains call leaves the bit array,
\* its size, the hash count, the inserted count and the error flags as they
\* were, so every Contains call after it answers as it would have before it.
C12_ContainsPure ==
  [][last'.op = "Contains" =>
       /\ filter_' = filter_
       /\ num_hashes_' = num_hashes_
       /\ size_' = size_
       /\ parameter_error_flags_' = parameter_error_flags_
       /\ \A v \in Entries : Contains(SelfNext, v) = Contains(Self, v)]_vars

\* C12 witness: Contains has answered false on a filter that holds an insert
\* and an error flag
C12_Witness ==
  /\ last.op = "Contains"
  /\ last.ret = FALSE
  /\ filter_.ones # {}
  /\ parameter_error_flags_ = 3
  /\ size_ = One

\* the flag (a single bit) is in the mask an int stands for; -1 is all ones
InMask(mask, flag) == mask = -1 \/ (mask >= 0 /\ HasFlag(mask, flag))

\* C13: HasParameterError() is true exactly when a flag is set.  A
\* ClearParameterError(mask) call clears the flags in mask, leaves every other
\* flag as it was and changes nothing else; ClearParameterError() (mask -1)
\* clears all flags.
C13_ClearParameterError ==
  /\ [](HasParameterError(Self) <=>
          (HasFlag(ParameterErrorFlags(Self), 1) \/ HasFlag(ParameterErrorFlags(Self), 2)))
  /\ [][last'.op = "ClearParameterError" =>
          /\ \A f \in {1, 2} :
               HasFlag(parameter_error_flags_', f)
                 <=> (HasFlag(parameter_error_flags_, f) /\ ~InMask(last'.flag, f))
          /\ parameter_error_flags_' \in 0..3
          /\ last'.flag = -1 => parameter_error_flags_' = 0
          /\ filter_' = filter_
          /\ num_hashes_' = num_hashes_
          /\ size_' = size_]_vars

\* C13 witness: the size flag was cleared and the hash-count flag stayed set
C13_Witness ==
  /\ last.op = "ClearParameterError"
  /\ last.flag = 1
  /\ parameter_error_flags_ = 2
  /\ HasParameterError(Self)

\* C17: a set flag coincides with the clamped value.  In every state, the
\* size-error flag set implies NumBits() = 2^33, the hash-count-error flag
\* set implies NumHashes() = 1, and ParameterErrorFlags() is 0, 1, 2 or 3.
C17_FlagMeansClamped ==
  /\ HasFlag(parameter_error_flags_, 1) => NumBits(Self) = Pow2(33)
  /\ HasFlag(parameter_error_flags_, 2) => NumHashes(Self) = One
  /\ parameter_error_flags_ \in {0, 1, 2, 3}

\* C17 witness: both flags set after calls that followed construction
C17_Witness ==
  /\ parameter_error_flags_ = 3
  /\ last.op = "SetLog2NumBits"
  /\ reconfigured
  /\ size_ = One

\* the object with hash count k
WithNumHashes(k) == [Self EXCEPT !.num_hashes_ = SizeT(k)]

\* C18: probe sequences are prefix-stable in the hash count.  For the array
\* size of a constructed filter (every size the model reaches is constructed)
\* and every entry, the sequence for hash count k is the first k elements of
\* the sequence for every k2 >= k; and a SetNumHashes or
\* SetOptimalNumHashes call that lowers the hash count never turns
\* Contains(v) from true to false.
C18_PrefixStable ==
  /\ [](last.op = "BloomFilter" => \A v \in Entries :
          LET hashes == [k \in 1..MaxProbes |-> Hash(WithNumHashes(k), v)]
          IN  \A k \in 1..MaxProbes : \A k2 \in k..MaxProbes :
                hashes[k] = SubSeq(hashes[k2], 1, k))
  /\ [][(/\ last'.op \in {"SetNumHashes", "SetOptimalNumHashes"}
          /\ CanHash
          /\ Less(num_hashes_', num_hashes_))
         => \A v \in Entries : Contains(Self, v) => Contains(SelfNext, v)]_vars

\* C18 witness: the hash count was lowered from 5 to 1 on a filter that
\* holds an insert, and Contains is true for the inserted entry
C18_Witness ==
  /\ last.op \in {"SetNumHashes", "SetOptimalNumHashes"}
  /\ num_hashes_ = One
  /\ Cardinality(filter_.ones) >= 4
  /\ \E v \in inserted : Contains(Self, v)

RECURSIVE MulNat(_, _)
\* n * x modulo 2^64, n a natural
MulNat(n, x) ==
  IF n = 0 THEN Zero
  ELSE Add(IF n % 2 = 1 THEN x ELSE Zero, Shl1(MulNat(n \div 2, x)))

\* x mod 2^e: the low e bits of x
ModPow2(x, e) ==
  [j \in 1..4 |->
     IF e >= 16 * j THEN x[j]
     ELSE IF e > 16 * (j - 1) THEN x[j] % 2^(e - 16 * (j - 1))
     ELSE 0]

RECURSIVE Djb2Ref(_, _, _)
\* hash * 33 + byte over the bytes of str from the i-th on, modulo 2^64
Djb2Ref(str, i, hash) ==
  IF i > Len(str) THEN hash
  ELSE Djb2Ref(str, i + 1, Add(MulNat(33, hash), SizeT(str[i])))

\* C14: Djb2(s) is the result of starting from 5381 and applying
\* hash = hash * 33 + byte for each byte (0..255) of s in order, modulo 2^64;
\* Djb2 of the empty string is 5381.
C14_Djb2 ==
  last.op = "Djb2" =>
    /\ last.ret = Djb2Ref(last.str, 1, SizeT(5381))
    /\ last.str = <<>> => last.ret = SizeT(5381)

\* C15: Hash(entry) returns NumHashes() positions, each below NumBits(), with
\* hashes[i] = (h1 + i * h2 + (i^3 - i) / 6) mod NumBits() for 0 <= i < k,
\* h1 = FirstHash(entry), h2 = SecondHash(entry).
C15_EnhancedDoubleHashing ==
  last.op = "Hash" =>
    LET h1 == FirstHash(Self, last.entry)
        h2 == SecondHash(Self, last.entry)
        e == Log2(NumBits(Self))
        k == ToNat(NumHashes(Self))
    IN  /\ Len(last.hashes) = k
        /\ \A i \in 0..(k - 1) :
             /\ Less(last.hashes[i + 1], NumBits(Self))
             /\ last.hashes[i + 1]
                  = ModPow2(Add(Add(h1, MulNat(i, h2)), SizeT((i^3 - i) \div 6)), e)

\* C15 witness: five positions in the largest array, for a string with bytes
\* >= 128, where the cubic term has taken effect: they are not evenly spaced
C15_Witness ==
  /\ last.op = "Hash"
  /\ Len(last.hashes) = 5
  /\ NumBits(Self) = Pow2(33)
  /\ last.entry = <<255, 128>>
  /\ Sub(last.hashes[5], last.hashes[4]) # Sub(last.hashes[2], last.hashes[1])

\* C16: the value before reduction (Djb2 of the text, times 2, plus 1) is odd,
\* and SecondHash returns h2 with 1 <= h2 < NumBits() that is coprime to
\* NumBits() (a power of two: h2 is odd, or NumBits() is 1).
C16_SecondHash ==
  last.op = "SecondHash" =>
    /\ last.raw[1] % 2 = 1
    /\ ~Less(last.ret, One)
    /\ Less(last.ret, NumBits(Self))
    /\ (last.ret[1] % 2 = 1 \/ NumBits(Self) = One)

====
